---------------------------- MODULE Spec2Model ----------------------------
(* A model of iso3166-3scrapper.py: the ISO3166_3Scraper text normalisers   *)
(* (clean_country_name, parse_former_codes, parse_validity_period,         *)
(* parse_successors, fix_incomplete_name, determine_transition_type) as    *)
(* operators over character sequences, and the save_json pipeline          *)
(* (fetch_table, the row loop of scrape_and_clean, the file write and the  *)
(* summary) as a state machine.                                            *)
(*                                                                         *)
(* A Python str is a sequence of one-character strings.  A missing cell    *)
(* (None / NaN, what pd.isna accepts) is the one-element sequence NaN.     *)
EXTENDS Integers, Sequences, FiniteSets, TLC

VARIABLES
    pc,                \* position of the run, or of the function call
    arg,               \* the argument of the function under check
    ret,               \* what the function returned
    ret2,              \* what a second application returned
    removed,           \* the indices of the prefixes the call stripped
    page,              \* what the reference page holds: its table layout
    df,                \* the table of the page, a sequence of rows
    response,          \* outcome of the HTTP GET
    get_attempts,      \* number of requests.get calls made
    visited,           \* number of rows the row loop has visited
    raised,            \* per visited row, whether process_record raised
    clean_records,     \* scrape_and_clean's clean_records
    errors,            \* scrape_and_clean's errors (the row indices)
    dataset,           \* the dataset scrape_and_clean returned
    file,              \* state of the output file
    transition_counts, \* save_json's transition_counts
    exc                \* the exception propagated to save_json's caller

fnVars == <<arg, ret, ret2, removed>>
runVars == <<page, df, response, get_attempts, visited, raised, clean_records,
             errors, dataset, file, transition_counts, exc>>
vars == <<pc, arg, ret, ret2, removed, page, df, response, get_attempts,
          visited, raised, clean_records, errors, dataset, file,
          transition_counts, exc>>

---------------------------------------------------------------------------
(* Characters and the character classes of Python's re module.             *)

Upper == {"A","B","C","D","E","F","G","H","I","J","K","L","M","N","O","P","Q","R","S","T","U","V","W","X","Y","Z"}
Lower == {"a","b","c","d","e","f","g","h","i","j","k","l","m","n","o","p","q","r","s","t","u","v","w","x","y","z"}
Digit == {"0","1","2","3","4","5","6","7","8","9"}
\* \s, and what str.split() and str.strip() treat as whitespace
Space == {" ", "\t"}
\* \w
Word == Upper \cup Lower \cup Digit \cup {"_"}

UpperSeq == <<"A","B","C","D","E","F","G","H","I","J","K","L","M","N","O","P","Q","R","S","T","U","V","W","X","Y","Z">>
LowerSeq == <<"a","b","c","d","e","f","g","h","i","j","k","l","m","n","o","p","q","r","s","t","u","v","w","x","y","z">>

\* str.lower() on one character
LowerChar(c) ==
    IF c \in Upper
    THEN LowerSeq[CHOOSE i \in 1..26 : UpperSeq[i] = c]
    ELSE c

\* str.lower()
ToLower(s) == [i \in 1..Len(s) |-> LowerChar(s[i])]

\* None / NaN
NaN == << "NaN" >>

\* Python's None, the value of an absent slot
None == << "None" >>

\* pd.isna(x)
IsNa(x) == x = NaN \/ x = None

\* s[n:]
Drop(s, n) == SubSeq(s, n + 1, Len(s))

\* s[:n]
Take(s, n) == SubSeq(s, 1, n)

\* whether the literal lit lies in s at position p (1-based)
LitAt(s, p, lit) ==
    /\ p >= 1
    /\ p + Len(lit) - 1 <= Len(s)
    /\ SubSeq(s, p, p + Len(lit) - 1) = lit

\* s.startswith(prefix)
StartsWith(s, prefix) == LitAt(s, 1, prefix)

\* s.endswith(suffix)
EndsWith(s, suffix) == LitAt(s, Len(s) - Len(suffix) + 1, suffix)

\* sub in s
Contains(s, sub) == \E p \in 1..(Len(s) + 1) : LitAt(s, p, sub)

\* the first position at or after p whose character is not in class, Len(s)+1
\* when there is none: where a greedy class* stops
RECURSIVE SkipClass(_, _, _)
SkipClass(s, p, class) ==
    IF p <= Len(s) /\ s[p] \in class
    THEN SkipClass(s, p + 1, class)
    ELSE p

\* the first position at or after p whose character is in class, Len(s)+1
\* when there is none
RECURSIVE SkipUntil(_, _, _)
SkipUntil(s, p, class) ==
    IF p <= Len(s) /\ s[p] \notin class
    THEN SkipUntil(s, p + 1, class)
    ELSE p

\* s.strip()
RECURSIVE RStrip(_)
RStrip(s) ==
    IF s # <<>> /\ s[Len(s)] \in Space
    THEN RStrip(Take(s, Len(s) - 1))
    ELSE s

Strip(s) == RStrip(Drop(s, SkipClass(s, 1, Space) - 1))

\* s.split(): the maximal runs of non-whitespace characters
RECURSIVE SplitWs(_)
SplitWs(s) ==
    LET b == SkipClass(s, 1, Space)
        e == SkipUntil(s, b, Space)
    IN IF b > Len(s)
       THEN <<>>
       ELSE <<SubSeq(s, b, e - 1)>> \o SplitWs(Drop(s, e - 1))

\* ' '.join(words)
RECURSIVE JoinSp(_)
JoinSp(words) ==
    IF words = <<>> THEN <<>>
    ELSE IF Len(words) = 1 THEN words[1]
    ELSE words[1] \o <<" ">> \o JoinSp(Tail(words))

\* the concatenation of a sequence of strings
RECURSIVE Flatten(_)
Flatten(chunks) ==
    IF chunks = <<>> THEN <<>> ELSE chunks[1] \o Flatten(Tail(chunks))

\* the sum of the values of a function with a finite domain
RECURSIVE SumOf(_)
SumOf(f) ==
    IF DOMAIN f = {} THEN 0
    ELSE LET k == CHOOSE k \in DOMAIN f : TRUE
         IN f[k] + SumOf([j \in DOMAIN f \ {k} |-> f[j]])

---------------------------------------------------------------------------
(* clean_country_name                                                      *)

NoteOpen == <<"[","n","o","t","e"," ">>

\* re.match(r'\[note \d+\]', s[p-1:]): the position after the match, 0 when
\* there is none
NoteEnd(s, p) ==
    IF ~LitAt(s, p, NoteOpen) THEN 0
    ELSE LET d == p + Len(NoteOpen)
             e == SkipClass(s, d, Digit)
         IN IF e > d /\ e <= Len(s) /\ s[e] = "]" THEN e + 1 ELSE 0

\* re.sub(r'\[note \d+\]', '', s): one left-to-right pass over s that drops
\* every non-overlapping match
RECURSIVE RemoveNotesFrom(_, _)
RemoveNotesFrom(s, p) ==
    IF p > Len(s) THEN <<>>
    ELSE IF NoteEnd(s, p) > 0 THEN RemoveNotesFrom(s, NoteEnd(s, p))
    ELSE <<s[p]>> \o RemoveNotesFrom(s, p + 1)

RemoveNotes(s) == RemoveNotesFrom(s, 1)

MergedInto == <<"M","e","r","g","e","d"," ","i","n","t","o"," ">>
NameChangedTo == <<"N","a","m","e"," ","c","h","a","n","g","e","d"," ","t","o"," ">>
DividedIntoColon == <<"D","i","v","i","d","e","d"," ","i","n","t","o",":">>
DividedIntoColonSp == <<"D","i","v","i","d","e","d"," ","i","n","t","o",":"," ">>
SplitInto == <<"S","p","l","i","t"," ","i","n","t","o"," ">>

prefixes == <<MergedInto, NameChangedTo, DividedIntoColon, DividedIntoColonSp, SplitInto>>

\* the loop body with a break after the first prefix stripped
RECURSIVE PrefixLoopOnce(_, _)
PrefixLoopOnce(st, i) ==
    IF i > Len(prefixes) THEN st
    ELSE IF StartsWith(st.name, prefixes[i])
         THEN [name |-> Drop(st.name, Len(prefixes[i])),
               removed |-> Append(st.removed, i)]
         ELSE PrefixLoopOnce(st, i + 1)

\* for prefix in prefixes: if name.startswith(prefix): name = name[len(prefix):]
\* from the i-th prefix on; st.removed records the prefixes stripped
RECURSIVE PrefixLoop(_, _)
PrefixLoop(st, i) ==
    IF i > Len(prefixes) THEN st
    ELSE IF StartsWith(st.name, prefixes[i])
         THEN PrefixLoop([name |-> Drop(st.name, Len(prefixes[i])),
                          removed |-> Append(st.removed, i)], i + 1)
         ELSE PrefixLoop(st, i + 1)

\* strip() alone, without collapsing the inner whitespace
StripOnly(name) == Strip(name)

\* ' '.join(name.split()).strip()
CleanWhitespace(name) == Strip(JoinSp(SplitWs(name)))

\* the prefixes clean_country_name strips from name, by index in prefixes
StrippedPrefixes(name) ==
    IF IsNa(name) \/ name = <<>> THEN <<>>
    ELSE PrefixLoop([name |-> RemoveNotes(name), removed |-> <<>>], 1).removed

clean_country_name(name) ==
    IF IsNa(name) \/ name = <<>> THEN <<>>
    ELSE CleanWhitespace(
             PrefixLoop([name |-> RemoveNotes(name), removed |-> <<>>], 1).name)

---------------------------------------------------------------------------
(* Inputs: strings put together from short pieces.                         *)

\* the strings made of at most n pieces
Strings(pieces, n) ==
    {Flatten(cs) : cs \in UNION {[1..k -> pieces] : k \in 0..n}}

MaxCleanPieces == 3

CleanPieces ==
    {MergedInto, NameChangedTo, DividedIntoColon, SplitInto, <<" ">>, <<"\t">>,
     NoteOpen, <<"[","n","o","t","e"," ","1","]">>, <<"2","]">>, <<"A","b">>}

CleanInputs == Strings(CleanPieces, MaxCleanPieces) \cup {NaN}

\* the state of the run when a specification checks one function alone
RunIdle ==
    /\ page = "none"
    /\ df = <<>>
    /\ response = "none"
    /\ get_attempts = 0
    /\ visited = 0
    /\ raised = <<>>
    /\ clean_records = <<>>
    /\ errors = <<>>
    /\ dataset = <<>>
    /\ file = "untouched"
    /\ transition_counts = <<>>
    /\ exc = "none"

InitClean ==
    /\ pc = "input"
    /\ arg \in CleanInputs
    /\ ret = <<>>
    /\ ret2 = <<>>
    /\ removed = <<>>
    /\ RunIdle

\* cleaned = clean_country_name(name)
Clean ==
    /\ pc = "input"
    /\ pc' = "cleaned"
    /\ ret' = clean_country_name(arg)
    /\ removed' = StrippedPrefixes(arg)
    /\ UNCHANGED <<arg, ret2>>
    /\ UNCHANGED runVars

\* clean_country_name(cleaned)
CleanAgain ==
    /\ pc = "cleaned"
    /\ pc' = "recleaned"
    /\ ret2' = clean_country_name(ret)
    /\ UNCHANGED <<arg, ret, removed>>
    /\ UNCHANGED runVars

NextClean == Clean \/ CleanAgain

SpecClean == InitClean /\ [][NextClean]_vars

\* a "[note N]" marker lies somewhere in s
HasNoteMarker(s) == \E p \in 1..Len(s) : NoteEnd(s, p) > 0

\* s begins with one of the recognized action prefixes
HasLeadingPrefix(s) == \E i \in 1..Len(prefixes) : StartsWith(s, prefixes[i])

\* s has no leading, trailing or doubled whitespace: single spaces between words
IsWhitespaceClean(s) ==
    /\ \A i \in 1..Len(s) : s[i] \in Space => s[i] = " "
    /\ s # <<>> => s[1] # " " /\ s[Len(s)] # " "
    /\ \A i \in 1..(Len(s) - 1) : ~(s[i] = " " /\ s[i + 1] = " ")

\* a sequence of numbers is strictly increasing
StrictlyIncreasing(q) == \A i \in 1..(Len(q) - 1) : q[i] < q[i + 1]

\* the input, notes removed, begins with prefix i followed at once by prefix j
BeginsWithPair(s, i, j) ==
    ~IsNa(s) /\ StartsWith(RemoveNotes(s), prefixes[i] \o prefixes[j])

(* C4: for all inputs, absent and blank ones included, the string          *)
(* clean_country_name returns contains no annotation marker "[note N]".    *)
C4_NoNoteMarkerInResult ==
    pc \in {"cleaned", "recleaned"} => ~HasNoteMarker(ret)

C10_CleanIsIdempotent ==
    pc = "recleaned" => ret2 = ret

(* C10 amended: a cleaned name has no surplus whitespace, and a second     *)
(* pass leaves it as it is exactly when it begins with no recognized       *)
(* prefix and holds no annotation marker.                                  *)
C10_IdempotentUnlessPrefixOrMarkerLeft ==
    /\ pc \in {"cleaned", "recleaned"} => IsWhitespaceClean(ret)
    /\ pc = "recleaned" =>
           (ret2 = ret <=> ~HasLeadingPrefix(ret) /\ ~HasNoteMarker(ret))

\* a first pass that changed the input and a second pass that changed nothing
C10_SecondPassFixedPoint ==
    /\ pc = "recleaned"
    /\ ret # <<>>
    /\ ret # arg
    /\ HasLeadingPrefix(arg)
    /\ ret2 = ret

---------------------------------------------------------------------------
(* parse_former_codes                                                      *)

\* s.split(sep): the pieces of s between the occurrences of the character sep
RECURSIVE SplitOn(_, _)
SplitOn(s, sep) ==
    LET e == SkipUntil(s, 1, {sep})
    IN IF e > Len(s)
       THEN <<s>>
       ELSE <<Take(s, e - 1)>> \o SplitOn(Drop(s, e), sep)

\* re.match(r'^[A-Z]{2}$', part)
IsAlpha2(part) == Len(part) = 2 /\ \A i \in 1..2 : part[i] \in Upper

\* re.match(r'^[A-Z]{3}$', part)
IsAlpha3(part) == Len(part) = 3 /\ \A i \in 1..3 : part[i] \in Upper

\* re.match(r'^\d{3}$', part)
IsNumeric3(part) == Len(part) = 3 /\ \A i \in 1..3 : part[i] \in Digit

\* the loop body where a slot, once filled, is not overwritten
CodesStepFirstWins(result, part) ==
    IF IsAlpha2(part) /\ result.alpha2 = None
    THEN [result EXCEPT !.alpha2 = part]
    ELSE IF IsAlpha3(part) /\ result.alpha3 = None
    THEN [result EXCEPT !.alpha3 = part]
    ELSE IF IsNumeric3(part) /\ result.numeric = None
    THEN [result EXCEPT !.numeric = part]
    ELSE result

\* the body of "for part in parts": the if / elif / elif chain
CodesStep(result, part) ==
    IF IsAlpha2(part) THEN [result EXCEPT !.alpha2 = part]
    ELSE IF IsAlpha3(part) THEN [result EXCEPT !.alpha3 = part]
    ELSE IF IsNumeric3(part) THEN [result EXCEPT !.numeric = part]
    ELSE result

\* for part in parts: ...
RECURSIVE CodesLoop(_, _)
CodesLoop(result, parts) ==
    IF parts = <<>> THEN result
    ELSE CodesLoop(CodesStep(result, parts[1]), Tail(parts))

\* parts = [p.strip() for p in codes_str.split(',')]
CodeParts(codes_str) ==
    LET raw == SplitOn(Strip(codes_str), ",")
    IN [i \in 1..Len(raw) |-> Strip(raw[i])]

parse_former_codes(codes_str) ==
    LET result == [alpha2 |-> None, alpha3 |-> None, numeric |-> None]
    IN IF IsNa(codes_str) \/ codes_str = <<>>
       THEN result
       ELSE CodesLoop(result, CodeParts(codes_str))

MaxCodePieces == 5

CodePieces == {<<"U","S">>, <<"A">>, <<"8","4","0">>, <<"1">>, <<",">>, <<" ">>}

CodeInputs == Strings(CodePieces, MaxCodePieces) \cup {NaN}

InitCodes ==
    /\ pc = "input"
    /\ arg \in CodeInputs
    /\ ret = <<>>
    /\ ret2 = <<>>
    /\ removed = <<>>
    /\ RunIdle

\* former_codes = parse_former_codes(codes_str)
ParseFormerCodes ==
    /\ pc = "input"
    /\ pc' = "parsed"
    /\ ret' = parse_former_codes(arg)
    /\ UNCHANGED <<arg, ret2, removed>>
    /\ UNCHANGED runVars

NextCodes == ParseFormerCodes

SpecCodes == InitCodes /\ [][NextCodes]_vars

\* the comma-separated tokens of s, trimmed: the text between two commas (or
\* an end of the string), without its surrounding whitespace
TrimmedTokens(s) ==
    IF IsNa(s) THEN <<>>
    ELSE LET commas == {i \in 1..Len(s) : s[i] = ","}
             starts == {1} \cup {i + 1 : i \in commas}
             EndOf(b) == IF \E c \in commas : c >= b
                         THEN (CHOOSE c \in commas :
                                   c >= b /\ \A d \in commas : d >= b => c <= d) - 1
                         ELSE Len(s)
             Nth(k) == CHOOSE b \in starts :
                           Cardinality({x \in starts : x < b}) = k - 1
         IN [k \in 1..Cardinality(starts) |->
                Strip(SubSeq(s, Nth(k), EndOf(Nth(k))))]

\* the last token of toks that satisfies Match, None when there is none
LastMatching(toks, Match(_)) ==
    LET hits == {k \in 1..Len(toks) : Match(toks[k])}
    IN IF hits = {} THEN None
       ELSE toks[CHOOSE k \in hits : \A h \in hits : h <= k]

(* C5: parse_former_codes fills each slot independently of the order of    *)
(* the tokens: alpha2 is the last trimmed token of exactly 2 uppercase     *)
(* letters, alpha3 the last of exactly 3 uppercase letters, numeric the    *)
(* last of exactly 3 digits; a slot with no matching token stays absent.   *)
C5_EachSlotIsLastMatchingToken ==
    pc = "parsed" =>
        /\ ret.alpha2 = LastMatching(TrimmedTokens(arg), IsAlpha2)
        /\ ret.alpha3 = LastMatching(TrimmedTokens(arg), IsAlpha3)
        /\ ret.numeric = LastMatching(TrimmedTokens(arg), IsNumeric3)

\* "US, AA": two alpha2 tokens, the later one fills the slot; the other two
\* slots stay absent
C5_LaterTokenOverwrites ==
    /\ pc = "parsed"
    /\ arg = <<"U","S",","," ","A","A">>
    /\ ret = [alpha2 |-> <<"A","A">>, alpha3 |-> None, numeric |-> None]

---------------------------------------------------------------------------
(* parse_validity_period                                                   *)

\* the character U+2013, the en dash, which the module's character set cannot
\* spell
EnDash == "U+2013"

\* the class of the en dash and the hyphen
Dash == {EnDash, "-"}

\* the pattern (\d{4})[U+2013\-](\d{4}) matches s at position p
PeriodAt(s, p) ==
    /\ p + 8 <= Len(s)
    /\ \A i \in p..(p + 3) : s[i] \in Digit
    /\ s[p + 4] \in Dash
    /\ \A i \in (p + 5)..(p + 8) : s[i] \in Digit

\* int(c) for one digit
DigitValue(c) == CHOOSE n \in 0..9 : <<"0","1","2","3","4","5","6","7","8","9">>[n + 1] = c

\* int(digits)
RECURSIVE ToInt(_)
ToInt(digits) ==
    IF digits = <<>> THEN 0
    ELSE 10 * ToInt(Take(digits, Len(digits) - 1)) + DigitValue(digits[Len(digits)])

parse_validity_period(period_str) ==
    LET result == [start |-> None, end |-> None]
        s == Strip(period_str)
        hits == {p \in 1..Len(s) : PeriodAt(s, p)}
        m == CHOOSE p \in hits : \A q \in hits : p <= q
    IN IF IsNa(period_str) \/ period_str = <<>> THEN result
       ELSE IF hits = {} THEN result
       ELSE [start |-> ToInt(SubSeq(s, m, m + 3)),
             end |-> ToInt(SubSeq(s, m + 5, m + 8))]

---------------------------------------------------------------------------
(* determine_transition_type                                               *)

KwMergedInto == <<"m","e","r","g","e","d"," ","i","n","t","o">>
KwNameChanged == <<"n","a","m","e"," ","c","h","a","n","g","e","d">>
KwDividedInto == <<"d","i","v","i","d","e","d"," ","i","n","t","o">>
KwSplitInto == <<"s","p","l","i","t"," ","i","n","t","o">>

\* the chain with "name changed" tested before "merged into"
TransitionTypeNameFirst(successor_str) ==
    LET desc_lower == ToLower(successor_str)
    IN IF IsNa(successor_str) \/ successor_str = <<>> THEN "other"
       ELSE IF Contains(desc_lower, KwNameChanged) THEN "name_changed"
       ELSE IF Contains(desc_lower, KwMergedInto) THEN "merged"
       ELSE IF Contains(desc_lower, KwDividedInto)
               \/ Contains(desc_lower, KwSplitInto) THEN "divided"
       ELSE "other"

determine_transition_type(successor_str) ==
    LET desc_lower == ToLower(successor_str)
    IN IF IsNa(successor_str) \/ successor_str = <<>> THEN "other"
       ELSE IF Contains(desc_lower, KwMergedInto) THEN "merged"
       ELSE IF Contains(desc_lower, KwNameChanged) THEN "name_changed"
       ELSE IF Contains(desc_lower, KwDividedInto)
               \/ Contains(desc_lower, KwSplitInto) THEN "divided"
       ELSE "other"

MaxTypePieces == 4

TypePieces ==
    {<<"M","e","r","g","e","d">>, <<" ","i","n","t","o">>,
     <<"n","a","m","e"," ","c","h","a","n","g","e","d">>,
     <<"D","I","V","I","D","E","D">>, <<"s","p","l","i","t">>, <<" ">>, <<"x">>}

TypeInputs == Strings(TypePieces, MaxTypePieces) \cup {NaN}

InitType ==
    /\ pc = "input"
    /\ arg \in TypeInputs
    /\ ret = <<>>
    /\ ret2 = <<>>
    /\ removed = <<>>
    /\ RunIdle

\* transition_type = determine_transition_type(raw_desc)
DetermineTransitionType ==
    /\ pc = "input"
    /\ pc' = "typed"
    /\ ret' = determine_transition_type(arg)
    /\ UNCHANGED <<arg, ret2, removed>>
    /\ UNCHANGED runVars

NextType == DetermineTransitionType

SpecType == InitType /\ [][NextType]_vars

\* kw, a lower-case keyword, occurs in s when the case of letters is ignored
ContainsIgnoringCase(s, kw) ==
    /\ ~IsNa(s)
    /\ \E p \in 1..Len(s) :
          /\ p + Len(kw) - 1 <= Len(s)
          /\ \A k \in 1..Len(kw) :
                s[p + k - 1] = kw[k]
                \/ (s[p + k - 1] \in Upper /\ LowerChar(s[p + k - 1]) = kw[k])

(* C6: determine_transition_type classifies by case-insensitive substring  *)
(* in a fixed priority order: "merged into" gives "merged" whatever else   *)
(* the text holds; otherwise "name changed" gives "name_changed";          *)
(* otherwise "divided into" or "split into" gives "divided"; every other   *)
(* text, and absent or blank input, gives "other".                         *)
C6_ClassifiedInPriorityOrder ==
    pc = "typed" =>
        LET merged == ContainsIgnoringCase(arg, KwMergedInto)
            renamed == ContainsIgnoringCase(arg, KwNameChanged)
            divided == ContainsIgnoringCase(arg, KwDividedInto)
                       \/ ContainsIgnoringCase(arg, KwSplitInto)
        IN /\ merged => ret = "merged"
           /\ ~merged /\ renamed => ret = "name_changed"
           /\ ~merged /\ ~renamed /\ divided => ret = "divided"
           /\ ~merged /\ ~renamed /\ ~divided => ret = "other"
           /\ (IsNa(arg) \/ \A i \in 1..Len(arg) : arg[i] \in Space) => ret = "other"

\* a text with "name changed" before "Merged into": classified "merged"
C6_MergedBeatsNameChanged ==
    /\ pc = "typed"
    /\ ContainsIgnoringCase(arg, KwNameChanged)
    /\ ContainsIgnoringCase(arg, KwMergedInto)
    /\ StartsWith(arg, KwNameChanged)
    /\ ret = "merged"

---------------------------------------------------------------------------
(* fix_incomplete_name                                                     *)

RepublicOf == <<"R","e","p","u","b","l","i","c"," ","o","f">>
DemocraticRepublicOfThe == <<"D","e","m","o","c","r","a","t","i","c"," ","R","e","p","u","b","l","i","c"," ","o","f"," ","t","h","e">>

\* the keys of patterns, in insertion order
patterns == <<RepublicOf, DemocraticRepublicOfThe>>

\* len(name) > 25
MaxFixLen == 25

\* after a run [\w\s]+ of k characters from position b of raw, the rest of
\* the pattern ,?\s*<incomplete>: the position after the match, 0 when the
\* rest does not match there
PhraseEnd(raw, b, k, incomplete) ==
    LET p == b + k
        c == IF p <= Len(raw) /\ raw[p] = "," THEN p + 1 ELSE p
        l == SkipClass(raw, c, Space)
    IN IF LitAt(raw, l, incomplete) THEN l + Len(incomplete) ELSE 0

\* the lengths k >= 1 of a run [\w\s]+ from position b after which the rest
\* of the pattern matches
PhraseRuns(raw, b, incomplete) ==
    {k \in 1..(SkipClass(raw, b, Word \cup Space) - b) :
        PhraseEnd(raw, b, k, incomplete) > 0}

\* re.search(r"([\w\s]+,?\s*<incomplete>)", raw).group(1): the leftmost
\* match, its run the longest one that lets the rest match; NaN when the
\* search finds nothing
SearchPhrase(raw, incomplete) ==
    LET begins == {b \in 1..Len(raw) : PhraseRuns(raw, b, incomplete) # {}}
        b == CHOOSE x \in begins : \A y \in begins : x <= y
        k == CHOOSE x \in PhraseRuns(raw, b, incomplete) :
                 \A y \in PhraseRuns(raw, b, incomplete) : y <= x
    IN IF begins = {} THEN NaN
       ELSE SubSeq(raw, b, PhraseEnd(raw, b, k, incomplete) - 1)

\* re.match(r'\s*\([A-Z]{2}.*?\)', s[p-1:]): the position after the match, 0
\* when there is none
CodeGroupEnd(s, p) ==
    LET q == SkipClass(s, p, Space)
        e == SkipUntil(s, q + 3, {")"})
    IN IF /\ q + 2 <= Len(s)
          /\ s[q] = "("
          /\ s[q + 1] \in Upper
          /\ s[q + 2] \in Upper
          /\ e <= Len(s)
       THEN e + 1
       ELSE 0

\* re.sub(r'\s*\([A-Z]{2}.*?\)', '', s)
RECURSIVE RemoveCodeGroupsFrom(_, _)
RemoveCodeGroupsFrom(s, p) ==
    IF p > Len(s) THEN <<>>
    ELSE IF CodeGroupEnd(s, p) > 0 THEN RemoveCodeGroupsFrom(s, CodeGroupEnd(s, p))
    ELSE <<s[p]>> \o RemoveCodeGroupsFrom(s, p + 1)

\* for incomplete, pattern in patterns.items(): ... from the i-th pattern on
RECURSIVE FixLoop(_, _, _)
FixLoop(name, raw_description, i) ==
    IF i > Len(patterns) THEN name
    ELSE IF /\ (name = patterns[i] \/ EndsWith(name, patterns[i]))
            /\ SearchPhrase(raw_description, patterns[i]) # NaN
         THEN Strip(RemoveCodeGroupsFrom(
                        SearchPhrase(raw_description, patterns[i]), 1))
         ELSE FixLoop(name, raw_description, i + 1)

fix_incomplete_name(name, raw_description) ==
    IF name = <<>> \/ Len(name) > MaxFixLen THEN name
    ELSE FixLoop(name, raw_description, 1)

---------------------------------------------------------------------------
(* parse_successors                                                        *)

\* re.match(code_pattern, s[p-1:]) for
\* code_pattern = r'\(([A-Z]{2}),\s*([A-Z]{2,3}),\s*(\d{3,4})\)':
\* the match (its start, the position after its end, its three groups), or
\* NoMatch when the pattern does not match at p
NoMatch == [start |-> 0, end |-> 0, group1 |-> <<>>, group2 |-> <<>>, group3 |-> <<>>]

TripletAt(s, p) ==
    LET a3 == SkipClass(s, p + 4, Space)
        a3end == SkipClass(s, a3, Upper)
        n == SkipClass(s, a3end + 1, Space)
        nend == SkipClass(s, n, Digit)
    IN IF /\ p + 3 <= Len(s)
          /\ s[p] = "("
          /\ s[p + 1] \in Upper
          /\ s[p + 2] \in Upper
          /\ s[p + 3] = ","
          /\ a3end - a3 \in {2, 3}
          /\ a3end <= Len(s)
          /\ s[a3end] = ","
          /\ nend - n \in {3, 4}
          /\ nend <= Len(s)
          /\ s[nend] = ")"
       THEN [start |-> p, end |-> nend + 1,
             group1 |-> SubSeq(s, p + 1, p + 2),
             group2 |-> SubSeq(s, a3, a3end - 1),
             group3 |-> SubSeq(s, n, nend - 1)]
       ELSE NoMatch

\* list(re.finditer(code_pattern, s)): the matches found scanning from p on,
\* each search resuming where the previous match ended
RECURSIVE FindTriplets(_, _)
FindTriplets(s, p) ==
    IF p > Len(s) THEN <<>>
    ELSE IF TripletAt(s, p) # NoMatch
         THEN <<TripletAt(s, p)>> \o FindTriplets(s, TripletAt(s, p).end)
         ELSE FindTriplets(s, p + 1)

ReDividedInto == <<"d","i","v","i","d","e","d"," ","i","n","t","o",":">>
ReSplitInto == <<"s","p","l","i","t"," ","i","n","t","o",":">>

\* re.sub(r'^(?:Divided into:|Split into:)\s*', '', s, flags=re.IGNORECASE)
StripLeadingKeyword(s) ==
    IF StartsWith(ToLower(s), ReDividedInto)
    THEN Drop(s, SkipClass(s, Len(ReDividedInto) + 1, Space) - 1)
    ELSE IF StartsWith(ToLower(s), ReSplitInto)
    THEN Drop(s, SkipClass(s, Len(ReSplitInto) + 1, Space) - 1)
    ELSE s

\* from the text between two code triplets to the cleaned country name
SegmentName(segment) ==
    clean_country_name(Strip(RemoveNotes(StripLeadingKeyword(Strip(segment)))))

\* len(country_name) < 3
MinNameLen == 3

\* start_pos taken from the start of the previous match
StartPosAtPreviousStart(code_matches, i) ==
    IF i > 1 THEN code_matches[i - 1].start ELSE 1

\* start_pos, 1-based: the position after the previous match, or the start
start_pos(code_matches, i) ==
    IF i > 1 THEN code_matches[i - 1].end ELSE 1

\* the body of "for i, code_match in enumerate(code_matches)" from the i-th
\* match on
RECURSIVE SuccessorLoop(_, _, _, _)
SuccessorLoop(successor_str, raw_desc, code_matches, i) ==
    IF i > Len(code_matches) THEN <<>>
    ELSE LET code_match == code_matches[i]
             country_name ==
                 SegmentName(SubSeq(successor_str,
                                    start_pos(code_matches, i),
                                    code_match.start - 1))
             rest == SuccessorLoop(successor_str, raw_desc, code_matches, i + 1)
         IN IF Len(country_name) < MinNameLen
            THEN rest
            ELSE <<[name |-> fix_incomplete_name(country_name, raw_desc),
                    alpha2 |-> code_match.group1,
                    alpha3 |-> code_match.group2,
                    numeric |-> code_match.group3]>> \o rest

parse_successors(successor_str, raw_desc) ==
    IF IsNa(successor_str) \/ successor_str = <<>> THEN <<>>
    ELSE SuccessorLoop(successor_str, raw_desc, FindTriplets(successor_str, 1), 1)

MaxSuccPieces == 4

SintMaarten == <<"S","i","n","t"," ">>
DutchPart == <<"(","D","u",")"," ">>
CodesSX == <<"(","S","X",","," ","S","X","M",","," ","5","3","4",")">>
CodesAN == <<"(","A","N",",","A","N",",","1","2","3","4",")">>

SuccPieces ==
    {<<"A","b"," ">>, DutchPart, CodesSX, CodesAN,
     <<"S","P","L","I","T"," ","i","n","t","o",":"," ">>,
     <<"[","n","o","t","e"," ","1","]">>, RepublicOf \o <<" ">>}

SuccInputs == Strings(SuccPieces, MaxSuccPieces)

InitSucc ==
    /\ pc = "input"
    /\ arg \in SuccInputs
    /\ ret = <<>>
    /\ ret2 = <<>>
    /\ removed = <<>>
    /\ RunIdle

\* successors = parse_successors(raw_desc, raw_desc)
ParseSuccessors ==
    /\ pc = "input"
    /\ pc' = "parsed"
    /\ ret' = parse_successors(arg, arg)
    /\ UNCHANGED <<arg, ret2, removed>>
    /\ UNCHANGED runVars

NextSucc == ParseSuccessors

SpecSucc == InitSucc /\ [][NextSucc]_vars

\* the positions of s where a code triplet "(AA, AA|AAA, ddd|dddd)" stands
Occurrences(s) == {p \in 1..Len(s) : TripletAt(s, p) # NoMatch}

\* the k-th occurrence of s in document order
Occurrence(s, k) ==
    TripletAt(s, CHOOSE p \in Occurrences(s) :
                     Cardinality({q \in Occurrences(s) : q < p}) = k - 1)

\* the cleaned text between the end of the previous occurrence (or the start
\* of s) and the start of the k-th occurrence
ExtractedName(s, k) ==
    SegmentName(SubSeq(s,
                       IF k = 1 THEN 1 ELSE Occurrence(s, k - 1).end,
                       Occurrence(s, k).start - 1))

\* the occurrences whose cleaned name has at least 3 characters, in order
KeptOccurrences(s) ==
    SelectSeq([k \in 1..Cardinality(Occurrences(s)) |-> k],
              LAMBDA k : Len(ExtractedName(s, k)) >= 3)

\* s ends with one of the incomplete suffixes
EndsIncomplete(s) ==
    EndsWith(s, RepublicOf) \/ EndsWith(s, DemocraticRepublicOfThe)

(* C1: when no extracted name ends with an incomplete suffix,              *)
(* parse_successors(s, s) returns, in document order, exactly one record   *)
(* per code-triplet occurrence whose cleaned name has at least 3           *)
(* characters; the record carries the three codes of that occurrence and   *)
(* the cleaned text between the end of the previous occurrence (or the     *)
(* start of s) and the start of this one; no occurrence, no record.        *)
C1_OneRecordPerOccurrence ==
    (/\ pc = "parsed"
     /\ \A j \in 1..Len(KeptOccurrences(arg)) :
           ~EndsIncomplete(ExtractedName(arg, KeptOccurrences(arg)[j])))
    => /\ Len(ret) = Len(KeptOccurrences(arg))
       /\ \A j \in 1..Len(ret) :
             LET k == KeptOccurrences(arg)[j]
             IN /\ ret[j].name = ExtractedName(arg, k)
                /\ ret[j].alpha2 = Occurrence(arg, k).group1
                /\ ret[j].alpha3 = Occurrence(arg, k).group2
                /\ ret[j].numeric = Occurrence(arg, k).group3
                /\ Len(ret[j].alpha2) = 2
                /\ Len(ret[j].alpha3) \in {2, 3}
                /\ Len(ret[j].numeric) \in {3, 4}
       /\ Occurrences(arg) = {} => ret = <<>>

\* "Ab (Du) (SX, SXM, 534)(AN,AN,1234)": the parentheses of the name are
\* kept, and the second triplet, which has no name before it, gives no record
C1_ParenthesisInNameKept ==
    /\ pc = "parsed"
    /\ arg = <<"A","b"," ">> \o DutchPart \o CodesSX \o CodesAN
    /\ ret = <<[name |-> <<"A","b"," ","(","D","u",")">>,
                alpha2 |-> <<"S","X">>,
                alpha3 |-> <<"S","X","M">>,
                numeric |-> <<"5","3","4">>]>>

(* C7: when a cleaned successor name of at most 25 characters ends with    *)
(* "Republic of" or "Democratic Republic of the" and the description holds *)
(* a matching phrase, the returned name ends with that suffix and is at    *)
(* least as long as the name passed in; when there is no phrase, or the    *)
(* name is longer or ends with neither suffix, the name is unchanged.      *)
C7_RepairGivesLongerName ==
    pc = "parsed" =>
        /\ Len(ret) = Len(KeptOccurrences(arg))
        /\ \A j \in 1..Len(ret) :
              LET name == ExtractedName(arg, KeptOccurrences(arg)[j])
                  found == {i \in 1..Len(patterns) :
                               /\ Len(name) <= MaxFixLen
                               /\ EndsWith(name, patterns[i])
                               /\ SearchPhrase(arg, patterns[i]) # NaN}
              IN /\ \A i \in found :
                       /\ EndsWith(ret[j].name, patterns[i])
                       /\ Len(ret[j].name) >= Len(name)
                 /\ found = {} => ret[j].name = name

---------------------------------------------------------------------------
(* process_record                                                          *)

NanText == <<"n","a","n">>

\* str(x) for a cell: a missing cell prints as "nan", a string is itself
Str(x) == IF x = NaN THEN NanText ELSE x

\* row.get(label, ''): the cell of the row under the column label
Cell(row, label) == row[label]

process_record(row) ==
    LET former_codes == parse_former_codes(Cell(row, "Former codes"))
        validity == parse_validity_period(Cell(row, "Period of validity"))
        raw_desc == Str(Cell(row, "New country names and codes"))
        successors == parse_successors(raw_desc, raw_desc)
        transition_type == determine_transition_type(raw_desc)
        former_name == clean_country_name(Cell(row, "Former country name"))
        code_text == Strip(Str(Cell(row, "ISO 3166-3 code")))
        iso_3166_3_code == IF code_text = NanText THEN None ELSE code_text
    IN [former_country |->
            [name |-> former_name,
             alpha2 |-> former_codes.alpha2,
             alpha3 |-> former_codes.alpha3,
             numeric |-> former_codes.numeric,
             iso_3166_3_alpha4 |-> iso_3166_3_code],
        validity_period |-> validity,
        transition |-> [type |-> transition_type, successors |-> successors]]

---------------------------------------------------------------------------
(* save_json: fetch_table, the row loop of scrape_and_clean, the write     *)
(* and the summary.                                                        *)

\* a row of the table: a former country divided into two successors
RowDivided ==
    [c \in {"Former country name", "Former codes", "Period of validity",
            "ISO 3166-3 code", "New country names and codes"} |->
        CASE c = "Former country name" -> <<"A","b","c","[","n","o","t","e"," ","1","]">>
          [] c = "Former codes" -> <<"A","N",","," ","A","N","T",","," ","5","3","0">>
          [] c = "Period of validity" -> <<"1","9","7","4",EnDash,"2","0","1","0">>
          [] c = "ISO 3166-3 code" -> <<"A","N","H","H">>
          [] c = "New country names and codes" ->
                 DividedIntoColonSp \o SintMaarten \o DutchPart \o CodesSX
                 \o <<" ","A","b","c"," ">> \o CodesAN]

\* a row of the table: a former country merged into another one
RowMerged ==
    [c \in {"Former country name", "Former codes", "Period of validity",
            "ISO 3166-3 code", "New country names and codes"} |->
        CASE c = "Former country name" -> <<"D","e","f">>
          [] c = "Former codes" -> <<"D","D",","," ","D","D","R",","," ","2","7","8">>
          [] c = "Period of validity" -> <<"1","9","7","4","-","1","9","9","0">>
          [] c = "ISO 3166-3 code" -> <<"D","D","D","E">>
          [] c = "New country names and codes" ->
                 MergedInto \o <<"A","b","c"," ">> \o CodesSX]

\* a row of the table whose cells, but for the name, are missing
RowMissing ==
    [c \in {"Former country name", "Former codes", "Period of validity",
            "ISO 3166-3 code", "New country names and codes"} |->
        IF c = "Former country name" THEN <<"G","h","i">> ELSE NaN]

RowKinds == {RowDivided, RowMerged, RowMissing}

MaxRows == 3

\* the tables a page can hold
Tables == UNION {[1..n -> RowKinds] : n \in 0..MaxRows}

\* what soup.find and pd.read_html find in the page: a table of class
\* "sortable", or none of that class and a largest table, or no table
Pages ==
    {[layout |-> l, table |-> tb] : l \in {"sortable", "plain"}, tb \in Tables}
    \cup {[layout |-> "no_table", table |-> <<>>]}

\* what requests.get and raise_for_status can end in
Responses == {"ok", "ConnectionError", "HTTPError", "Timeout"}

Init ==
    /\ pc = "fetch"
    /\ arg = <<>>
    /\ ret = <<>>
    /\ ret2 = <<>>
    /\ removed = <<>>
    /\ page \in Pages
    /\ df = <<>>
    /\ response = "none"
    /\ get_attempts = 0
    /\ visited = 0
    /\ raised = <<>>
    /\ clean_records = <<>>
    /\ errors = <<>>
    /\ dataset = <<>>
    /\ file = "untouched"
    /\ transition_counts = <<>>
    /\ exc = "none"

\* a fetch that, when the request fails, leaves the run where it can ask again
FetchTableRetrying ==
    /\ pc = "fetch"
    /\ get_attempts < 2
    /\ \E r \in Responses :
          /\ response' = r
          /\ get_attempts' = get_attempts + 1
          /\ IF r = "ok"
             THEN pc' = "read_table" /\ exc' = exc
             ELSE IF get_attempts = 0
             THEN pc' = "fetch" /\ exc' = exc
             ELSE pc' = "failed" /\ exc' = r
    /\ UNCHANGED fnVars
    /\ UNCHANGED <<page, df, visited, raised, clean_records, errors, dataset,
                   file, transition_counts>>

\* fetch_table, the request: requests.get and raise_for_status; a
\* RequestException is printed and raised again, through scrape_and_clean
\* and save_json, to the caller
FetchTable ==
    /\ pc = "fetch"
    /\ \E r \in Responses :
          /\ response' = r
          /\ get_attempts' = get_attempts + 1
          /\ IF r = "ok"
             THEN pc' = "read_table" /\ exc' = exc
             ELSE pc' = "failed" /\ exc' = r
    /\ UNCHANGED fnVars
    /\ UNCHANGED <<page, df, visited, raised, clean_records, errors, dataset,
                   file, transition_counts>>

\* fetch_table, the parse: the sortable table, or else the largest table;
\* pd.read_html raises ValueError when the page holds no table
ReadTable ==
    /\ pc = "read_table"
    /\ IF page.layout = "no_table"
       THEN pc' = "failed" /\ exc' = "ValueError" /\ df' = df
       ELSE pc' = "rows" /\ exc' = exc /\ df' = page.table
    /\ UNCHANGED fnVars
    /\ UNCHANGED <<page, response, get_attempts, visited, raised,
                   clean_records, errors, dataset, file, transition_counts>>

\* the loop body without its try / except: an exception of process_record
\* ends the run
ProcessRowUncaught ==
    /\ pc = "rows"
    /\ visited < Len(df)
    /\ \E raises \in BOOLEAN :
          /\ raised' = Append(raised, raises)
          /\ visited' = visited + 1
          /\ IF raises
             THEN /\ pc' = "failed"
                  /\ exc' = "Exception"
                  /\ UNCHANGED <<clean_records, errors>>
             ELSE /\ pc' = pc
                  /\ exc' = exc
                  /\ clean_records' =
                         Append(clean_records, process_record(df[visited + 1]))
                  /\ errors' = errors
    /\ UNCHANGED fnVars
    /\ UNCHANGED <<page, df, response, get_attempts, dataset, file,
                   transition_counts>>

\* one turn of "for idx, row in df.iterrows()": the record is appended, or
\* the exception process_record raised is caught and the row index recorded
ProcessRow ==
    /\ pc = "rows"
    /\ visited < Len(df)
    /\ \E raises \in BOOLEAN :
          /\ raised' = Append(raised, raises)
          /\ visited' = visited + 1
          /\ IF raises
             THEN /\ errors' = Append(errors, visited)
                  /\ clean_records' = clean_records
             ELSE /\ clean_records' =
                         Append(clean_records, process_record(df[visited + 1]))
                  /\ errors' = errors
    /\ UNCHANGED fnVars
    /\ UNCHANGED <<pc, page, df, response, get_attempts, dataset, file,
                   transition_counts, exc>>

\* a dataset whose total_records is the number of rows of the table
BuildDatasetCountingRows ==
    /\ pc = "rows"
    /\ visited = Len(df)
    /\ dataset' = [metadata |-> [standard |-> "ISO 3166-3",
                                 total_records |-> Len(df)],
                   countries |-> clean_records]
    /\ pc' = "open"
    /\ UNCHANGED fnVars
    /\ UNCHANGED <<page, df, response, get_attempts, visited, raised,
                   clean_records, errors, file, transition_counts, exc>>

\* the end of scrape_and_clean: the loop is over, the dataset is built and
\* returned to save_json
BuildDataset ==
    /\ pc = "rows"
    /\ visited = Len(df)
    /\ dataset' = [metadata |-> [standard |-> "ISO 3166-3",
                                 total_records |-> Len(clean_records)],
                   countries |-> clean_records]
    /\ pc' = "open"
    /\ UNCHANGED fnVars
    /\ UNCHANGED <<page, df, response, get_attempts, visited, raised,
                   clean_records, errors, file, transition_counts, exc>>

\* open(output_file, 'w'): the file is opened, or OSError goes to the caller
OpenFile ==
    /\ pc = "open"
    /\ \E opened \in BOOLEAN :
          IF opened
          THEN pc' = "dump" /\ file' = "open" /\ exc' = exc
          ELSE pc' = "failed" /\ file' = file /\ exc' = "OSError"
    /\ UNCHANGED fnVars
    /\ UNCHANGED <<page, df, response, get_attempts, visited, raised,
                   clean_records, errors, dataset, transition_counts>>

\* json.dump(data, f) and the end of the with block
Dump ==
    /\ pc = "dump"
    /\ \E written \in BOOLEAN :
          IF written
          THEN pc' = "summary" /\ file' = "written" /\ exc' = exc
          ELSE pc' = "failed" /\ file' = "partial" /\ exc' = "OSError"
    /\ UNCHANGED fnVars
    /\ UNCHANGED <<page, df, response, get_attempts, visited, raised,
                   clean_records, errors, dataset, transition_counts>>

\* transition_counts[t_type] = transition_counts.get(t_type, 0) + 1
CountOne(counts, t_type) ==
    [t \in DOMAIN counts \cup {t_type} |->
        IF t = t_type
        THEN (IF t \in DOMAIN counts THEN counts[t] ELSE 0) + 1
        ELSE counts[t]]

\* for country in data['countries']: ...
RECURSIVE CountTransitions(_, _)
CountTransitions(counts, countries) ==
    IF countries = <<>> THEN counts
    ELSE CountTransitions(CountOne(counts, countries[1].transition.type),
                          Tail(countries))

\* the summary statistics of save_json, and its return
Summary ==
    /\ pc = "summary"
    /\ transition_counts' = CountTransitions(<<>>, dataset.countries)
    /\ pc' = "done"
    /\ UNCHANGED fnVars
    /\ UNCHANGED <<page, df, response, get_attempts, visited, raised,
                   clean_records, errors, dataset, file, exc>>

Next ==
    \/ FetchTable
    \/ ReadTable
    \/ ProcessRow
    \/ BuildDataset
    \/ OpenFile
    \/ Dump
    \/ Summary

Spec == Init /\ [][Next]_vars

\* the positions of the run after scrape_and_clean has returned its dataset
AfterScrape == {"open", "dump", "summary", "done"}

\* the rows visited so far that raised, by 0-based row index, in row order
FailedRows ==
    SelectSeq([i \in 1..Len(raised) |-> i - 1], LAMBDA i : raised[i + 1])

\* the records of the rows visited so far that did not raise, in row order
RecordsOfGoodRows ==
    LET good == SelectSeq([i \in 1..Len(raised) |-> i], LAMBDA i : ~raised[i])
    IN [j \in 1..Len(good) |-> process_record(page.table[good[j]])]

(* C2: whatever rows make process_record raise, the row loop visits every  *)
(* row and scrape_and_clean completes: after k rows, len(clean_records) +  *)
(* len(errors) = k; a failing row gives one error entry naming its row     *)
(* index and no record; countries holds exactly the records of the other   *)
(* rows, in row order.                                                     *)
C2_RowFailuresAreContained ==
    /\ Len(raised) = visited
    /\ Len(clean_records) + Len(errors) = visited
    /\ errors = FailedRows
    /\ clean_records = RecordsOfGoodRows
    /\ pc \in AfterScrape =>
          /\ visited = Len(page.table)
          /\ dataset.countries = RecordsOfGoodRows
    /\ pc = "failed" =>
          /\ exc \in {"ConnectionError", "HTTPError", "Timeout", "ValueError", "OSError"}
          /\ exc = "OSError" => visited = Len(page.table)
          /\ exc # "OSError" => visited = 0

\* three rows, the second of which raised: one error entry, naming row 1,
\* and the records of rows 0 and 2, and the run is complete
C2_MiddleRowFailed ==
    /\ pc = "done"
    /\ page.table = <<RowDivided, RowMerged, RowMissing>>
    /\ raised = <<FALSE, TRUE, FALSE>>
    /\ errors = <<1>>
    /\ dataset.countries = <<process_record(RowDivided), process_record(RowMissing)>>

(* C3: in every run of save_json the HTTP GET is attempted exactly once;   *)
(* if it fails the run ends in failure with the exception propagated to    *)
(* the caller, no row is processed and the output file is never opened or  *)
(* written; the file is opened only after the fetch and the whole row loop *)
(* have completed.                                                         *)
C3_OneFetchThenRowsThenWrite ==
    /\ get_attempts <= 1
    /\ pc # "fetch" => get_attempts = 1
    /\ response \in Responses \ {"ok"} =>
          /\ pc = "failed"
          /\ exc = response
          /\ visited = 0
          /\ clean_records = <<>>
          /\ file = "untouched"
    /\ file # "untouched" =>
          /\ response = "ok"
          /\ df = page.table
          /\ visited = Len(df)
          /\ pc \in {"dump", "summary", "done", "failed"}

\* a request that timed out: one attempt, the run failed with the timeout,
\* no row visited, the file untouched
C3_TimeoutIsFatal ==
    /\ pc = "failed"
    /\ response = "Timeout"
    /\ exc = "Timeout"
    /\ get_attempts = 1
    /\ Len(page.table) > 0
    /\ visited = 0
    /\ file = "untouched"

\* the number of the countries of the dataset whose transition type is t
CountriesOfType(t) ==
    Cardinality({i \in 1..Len(dataset.countries) :
                    dataset.countries[i].transition.type = t})

(* C9: metadata.total_records equals the length of countries; the          *)
(* transition-type summary of save_json counts each emitted country once,  *)
(* so its counts sum to total_records; when no row fails, the length of    *)
(* countries is the number of table rows, rows whose former-codes cell is  *)
(* missing included.                                                       *)
C9_TotalsMatchCountries ==
    /\ pc \in AfterScrape =>
          /\ dataset.metadata.total_records = Len(dataset.countries)
          /\ (\A i \in 1..Len(raised) : ~raised[i]) =>
                Len(dataset.countries) = Len(page.table)
    /\ pc = "done" =>
          /\ SumOf(transition_counts) = dataset.metadata.total_records
          /\ \A t \in DOMAIN transition_counts :
                transition_counts[t] = CountriesOfType(t) /\ transition_counts[t] > 0
          /\ \A i \in 1..Len(dataset.countries) :
                dataset.countries[i].transition.type \in DOMAIN transition_counts

\* the three-row table (divided into two, merged, former codes missing), no
\* row failing: three countries, 2, 1 and 0 successors, one of each type
C9_ThreeRowTable ==
    /\ pc = "done"
    /\ page.table = <<RowDivided, RowMerged, RowMissing>>
    /\ raised = <<FALSE, FALSE, FALSE>>
    /\ dataset.metadata.total_records = 3
    /\ Len(dataset.countries) = 3
    /\ Len(dataset.countries[1].transition.successors) = 2
    /\ Len(dataset.countries[2].transition.successors) = 1
    /\ Len(dataset.countries[3].transition.successors) = 0
    /\ dataset.countries[3].former_country.alpha2 = None
    /\ DOMAIN transition_counts = {"divided", "merged", "other"}
    /\ \A t \in DOMAIN transition_counts : transition_counts[t] = 1

=============================================================================
